---- MODULE Spec2Model ----
(***************************************************************************)
(* Model of astroNN/nn/losses/classification.py: the masked sigmoid,       *)
(* categorical, binary and Bayesian cross-entropy losses.                  *)
(*                                                                         *)
(* Numbers are fixed-point integers: the integer n stands for n / Scale.   *)
(* A rank-2 tensor is a sequence of rows, each row a sequence of numbers.  *)
(* A value produced by a call is a record: either Ok(tensor) or            *)
(* Raise(exception, message).                                              *)
(***************************************************************************)
EXTENDS Integers, Sequences, FiniteSets, TLC

VARIABLES
    y_true,           \* labels handed to the loss under test
    y_pred,           \* predictions (logits or probabilities) handed to it
    from_logits,      \* the from_logits argument (of the wrapper, for the Bayesian loss)
    k,                \* rescaling factor used by the rescaled second call
    tensor_equality,  \* framework switch: does Tensor.__eq__ compare element-wise?
    pc,               \* position of the Bayesian loss construction
    loss,             \* outcome of the call under test
    loss2,            \* outcome of the related second call
    elem,             \* element-wise tensor the call reduced over its last axis
    bayes             \* locals of bayesian_crossentropy

vars == <<y_true, y_pred, from_logits, k, tensor_equality, pc, loss, loss2, elem, bayes>>

----------------------------------------------------------------------------
(* Bounds of the model *)

MaxBatch == 1      \* rows of a tensor
MaxWidth == 2      \* entries of a row (classes)
MaxScale == 3      \* largest rescaling factor k

----------------------------------------------------------------------------
(* Numbers *)

Scale == 100

\* astroNN.MAGIC_NUMBER, the missing-label sentinel (-9999.0)
MAGIC_NUMBER == (0 - 9999) * Scale

\* keras.backend.epsilon(): the smallest positive increment of the number type
Epsilon == 1

RDiv(n, d) == (2 * n + d) \div (2 * d)

Mul(a, b) == RDiv(a * b, Scale)

Div(a, b) == RDiv(a * Scale, b)

RECURSIVE ExpSeries(_, _, _, _)
ExpSeries(x, n, term, acc) ==
    IF term = 0 THEN acc
    ELSE ExpSeries(x, n + 1, RDiv(term * x, n * Scale), acc + term)

\* math_ops.exp / tf.exp
Exp(x) ==
    IF x >= 0 THEN RDiv(ExpSeries(x, 1, Scale * Scale, 0), Scale)
    ELSE RDiv(Scale * Scale * Scale, ExpSeries(0 - x, 1, Scale * Scale, 0))

Atanh2(z) ==
    LET I  == Scale * Scale
        z2 == RDiv(z * z, I)
        z3 == RDiv(z * z2, I)
        z5 == RDiv(z3 * z2, I)
        z7 == RDiv(z5 * z2, I)
        z9 == RDiv(z7 * z2, I)
    IN  2 * (z + RDiv(z3, 3) + RDiv(z5, 5) + RDiv(z7, 7) + RDiv(z9, 9))

RECURSIVE LogAux(_, _, _)
LogAux(x, p, e) ==
    IF x >= 2 * p THEN LogAux(x, 2 * p, e + 1)
    ELSE IF x < p THEN LogAux(2 * x, p, e - 1)
    ELSE e * 6931 + Atanh2(RDiv((x - p) * Scale * Scale, x + p))

\* tf.log, defined for x > 0
Log(x) == RDiv(LogAux(x, Scale, 0), Scale)

\* math_ops.log1p
Log1p(x) == Log(Scale + x)

RECURSIVE SqrtAux(_, _)
SqrtAux(n, r) == IF (r + 1) * (r + 1) > n THEN r ELSE SqrtAux(n, r + 1)

\* tf.sqrt, defined for x >= 0
Sqrt(x) == SqrtAux(x * Scale, 0)

\* tf.nn.elu
Elu(x) == IF x > 0 THEN x ELSE Exp(x) - Scale

Max(a, b) == IF a >= b THEN a ELSE b

Min(a, b) == IF a <= b THEN a ELSE b

Abs(a) == IF a >= 0 THEN a ELSE 0 - a

----------------------------------------------------------------------------
(* Tensors *)

Rows(vals, w) == [1..w -> vals]

Tensors(vals, b, w) == [1..b -> Rows(vals, w)]

\* get_shape() / tf.shape of a rank-2 tensor
Shape(t) == <<Len(t), Len(t[1])>>

Cells(t) == {<<r, c>> : r \in 1..Len(t), c \in 1..Len(t[1])}

Map1(F(_), t) == [r \in 1..Len(t) |-> [c \in 1..Len(t[r]) |-> F(t[r][c])]]

Map2(F(_, _), a, b) == [r \in 1..Len(a) |-> [c \in 1..Len(a[r]) |-> F(a[r][c], b[r][c])]]

Plus(a, b) == a + b

Minus(a, b) == a - b

Negate(a) == 0 - a

Zero(a) == 0

\* array_ops.zeros_like / tf.zeros_like
zeros_like(t) == Map1(Zero, t)

\* tf.reduce_sum over the last axis, for one row
RECURSIVE SumSeq(_)
SumSeq(s) == IF s = <<>> THEN 0 ELSE Head(s) + SumSeq(Tail(s))

\* tf.reduce_mean over the last axis: one number per row
reduce_mean(t) == [r \in 1..Len(t) |-> RDiv(SumSeq(t[r]), Len(t[r]))]

\* tf.clip_by_value
clip_by_value(t, lo, hi) == Map1(LAMBDA x : Min(Max(x, lo), hi), t)

Ok(v) == [ok |-> TRUE, val |-> v, exc |-> "", msg |-> <<>>]

Raise(e, m) == [ok |-> FALSE, val |-> <<>>, exc |-> e, msg |-> m]

Pending == [ok |-> FALSE, val |-> <<>>, exc |-> "pending", msg |-> <<>>]

\* TensorShape.merge_with on fully defined shapes: succeeds iff the shapes agree
merge_with(s1, s2) == Len(s1) = Len(s2) /\ \A i \in 1..Len(s1) : s1[i] = s2[i]

\* str.format: places[i] is the index written in the i-th replacement field
format(places, args) == [i \in 1..Len(places) |-> args[places[i] + 1]]

\* a condition is either a Python bool (rank0) or an element-wise boolean tensor
\* `tensor == constant`: element-wise when the framework's tensor equality is
\* switched on, otherwise the identity comparison of a Tensor object with a
\* float, which is False
TensorEq(t, c, elementwise) ==
    IF elementwise
    THEN [rank0 |-> FALSE, b |-> FALSE, t |-> Map1(LAMBDA x : x = c, t)]
    ELSE [rank0 |-> TRUE, b |-> FALSE, t |-> <<>>]

\* logits >= zeros (overloaded operator, element-wise)
GreaterEqual(a, b) == [rank0 |-> FALSE, b |-> FALSE, t |-> Map2(LAMBDA x, y : x >= y, a, b)]

\* tf.equal (always element-wise)
equal(t, c) == [rank0 |-> FALSE, b |-> FALSE, t |-> Map1(LAMBDA x : x = c, t)]

\* array_ops.where / tf.where(cond, x, y): a scalar condition selects x or y whole
where(cond, x, y) ==
    IF cond.rank0 THEN (IF cond.b THEN x ELSE y)
    ELSE [r \in 1..Len(x) |-> [c \in 1..Len(x[r]) |-> IF cond.t[r][c] THEN x[r][c] ELSE y[r][c]]]

----------------------------------------------------------------------------
(* The loss functions *)

astronn_sigmoid_cross_entropy_with_logits(labels, logits, elementwise) ==
    IF ~merge_with(Shape(labels), Shape(logits))
    THEN Raise("ValueError", format(<<0, 0>>, <<Shape(logits), Shape(labels)>>))
    ELSE LET zeros          == zeros_like(logits)
             cond           == GreaterEqual(logits, zeros)
             relu_logits    == where(cond, logits, zeros)
             neg_abs_logits == where(cond, Map1(Negate, logits), logits)
             magic_cond     == TensorEq(labels, MAGIC_NUMBER, elementwise)
         IN  Ok(where(magic_cond, zeros,
                      Map2(Plus, Map2(Minus, relu_logits, Map2(Mul, logits, labels)),
                                 Map1(Log1p, Map1(Exp, neg_abs_logits)))))

\* line 67 / line 101: tf.where(tf.equal(y_true, MAGIC_NUMBER), tf.zeros_like(y_true), y_true)
mask_magic_dropped(labels) == labels

mask_magic(labels) == where(equal(labels, MAGIC_NUMBER), zeros_like(labels), labels)

\* line 69: y_pred /= tf.reduce_sum(y_pred, last axis, keep_dims=True)
renormalize_dropped(pred) == pred

renormalize(pred) ==
    [r \in 1..Len(pred) |-> [c \in 1..Len(pred[r]) |-> Div(pred[r][c], SumSeq(pred[r]))]]

\* broadcasting of a binary element-wise op: dimensions agree or one of them is 1
broadcastable(s1, s2) == \A i \in 1..2 : s1[i] = s2[i] \/ s1[i] = 1 \/ s2[i] = 1

broadcast2(F(_, _), a, b) ==
    [r \in 1..Max(Len(a), Len(b)) |->
        LET ra == a[IF Len(a) = 1 THEN 1 ELSE r]
            rb == b[IF Len(b) = 1 THEN 1 ELSE r]
        IN  [c \in 1..Max(Len(ra), Len(rb)) |->
                F(ra[IF Len(ra) = 1 THEN 1 ELSE c], rb[IF Len(rb) = 1 THEN 1 ELSE c])]]

\* lines 67-73 up to the reduction: y_true * tf.log(y_pred), element-wise
weighted_log(labels, pred) ==
    LET masked  == mask_magic(labels)
        scaled  == renormalize(pred)
        clipped == clip_by_value(scaled, Epsilon, Scale - Epsilon)
    IN  IF broadcastable(Shape(labels), Shape(pred))
        THEN Ok(broadcast2(Mul, masked, Map1(Log, clipped)))
        ELSE Raise("InvalidArgumentError", <<Shape(labels), Shape(pred)>>)

\* tf.nn.softmax_cross_entropy_with_logits_v2(labels, logits)
softmax_cross_entropy_with_logits(labels, logits) ==
    IF Shape(labels) # Shape(logits)
    THEN Raise("InvalidArgumentError", <<Shape(labels), Shape(logits)>>)
    ELSE Ok([r \in 1..Len(logits) |->
                LET row  == logits[r]
                    m    == CHOOSE x \in {row[c] : c \in 1..Len(row)} :
                                \A c \in 1..Len(row) : row[c] <= x
                    lse  == m + Log(SumSeq([c \in 1..Len(row) |-> Exp(row[c] - m)]))
                IN  0 - SumSeq([c \in 1..Len(row) |-> Mul(labels[r][c], row[c] - lse)])])

categorical_cross_entropy(labels, pred, logit_mode) ==
    IF ~logit_mode
    THEN LET prod == weighted_log(labels, pred)
         IN  IF prod.ok THEN Ok([r \in 1..Len(prod.val) |-> 0 - SumSeq(prod.val[r])]) ELSE prod
    ELSE softmax_cross_entropy_with_logits(labels, pred)

\* lines 99-107 up to the reduction: the element-wise masked sigmoid loss
binary_elements(labels, pred, logit_mode, elementwise) ==
    IF ~logit_mode
    THEN LET masked  == mask_magic(labels)
             clipped == clip_by_value(pred, Epsilon, Scale - Epsilon)
             logits  == Map1(LAMBDA p : Log(Div(p, Scale - p)), clipped)
         IN  astronn_sigmoid_cross_entropy_with_logits(masked, logits, elementwise)
    ELSE astronn_sigmoid_cross_entropy_with_logits(labels, pred, elementwise)

binary_cross_entropy(labels, pred, logit_mode, elementwise) ==
    LET e == binary_elements(labels, pred, logit_mode, elementwise)
    IN  IF e.ok THEN Ok(reduce_mean(e.val)) ELSE e

----------------------------------------------------------------------------
(* The Bayesian loss.  Its locals are graph values: Ok(tensor), or the error *)
(* the op will report when it is evaluated; an error operand makes the      *)
(* result of an op that error.  A Python exception ends the construction.   *)

T == 25

Lift1(F(_), a) == IF a.ok THEN Ok(F(a.val)) ELSE a

Lift2(F(_, _), a, b) == IF ~a.ok THEN a ELSE IF ~b.ok THEN b ELSE Ok(F(a.val, b.val))

VecMap1(F(_), v) == [r \in 1..Len(v) |-> F(v[r])]

VecMap2(F(_, _), a, b) == [r \in 1..Len(a) |-> F(a[r], b[r])]

\* t[:, idx] with a 0-based index: out of bounds when idx is not below the width
strided_slice_column(t, idx) ==
    IF idx < Len(t[1])
    THEN Ok([r \in 1..Len(t) |-> t[r][idx + 1]])
    ELSE Raise("InvalidArgumentError", <<idx, Len(t[1])>>)

\* t[:, lo:hi] with 0-based bounds: the end is clamped to the width
strided_slice_columns(t, lo, hi) ==
    [r \in 1..Len(t) |-> SubSeq(t[r], lo + 1, Min(hi, Len(t[r])))]

\* tf.random_normal(shape, mean=0, stddev=std): the draws a run can produce,
\* here one standard deviation below or above the mean
random_normal(std) ==
    {[r \in 1..Len(std) |-> [c \in 1..Len(std[r]) |-> m[r][c] * std[r][c]]] :
        m \in Tensors({0 - 1, 1}, Len(std), Len(std[1]))}

\* dist.sample(n) in iteration i: only a distribution object has the method; it
\* hands out the i-th draw of its stream
sample(dist, n, i) ==
    IF dist.kind = "Distribution" THEN Ok(dist.stream[i]) ELSE Raise("AttributeError", <<>>)

\* tf.transpose of a rank-2 tensor
transpose(t) == [c \in 1..Len(t[1]) |-> [r \in 1..Len(t) |-> t[r][c]]]

\* gaussian_crossentropy(true, pred, dist, undistorted_loss, num_classes)(i)
gaussian_crossentropy(true, pred, dist, undistorted_loss, num_classes, i) ==
    LET drawn == sample(dist, num_classes, i)
    IN  IF ~drawn.ok THEN drawn
        ELSE LET std_samples    == transpose(drawn.val)
                 distorted_loss == categorical_cross_entropy(Map2(Plus, pred, std_samples), true, TRUE)
                 diff           == Lift2(LAMBDA a, b : VecMap2(Minus, a, b), undistorted_loss, distorted_loss)
             IN  Lift1(LAMBDA d : VecMap1(LAMBDA x : 0 - Elu(x), d), diff)

\* tf.map_fn(fn, iterable): fn is applied to the elements in order; a Python
\* exception raised by fn leaves map_fn at that element
RECURSIVE map_fn(_, _, _, _, _, _, _)
map_fn(true, pred, dist, undistorted_loss, num_classes, i, acc) ==
    IF i > T THEN [raised |-> FALSE, exc |-> "", results |-> acc]
    ELSE LET r == gaussian_crossentropy(true, pred, dist, undistorted_loss, num_classes, i)
         IN  IF r.exc = "AttributeError"
             THEN [raised |-> TRUE, exc |-> r.exc, results |-> acc]
             ELSE map_fn(true, pred, dist, undistorted_loss, num_classes, i + 1, Append(acc, r))

\* tf.reduce_mean(monte_carlo_results, axis=0): the sum over the iterations, then the mean
RECURSIVE sum_over_iterations(_, _)
sum_over_iterations(results, i) ==
    IF i > Len(results) THEN Ok(<<>>)
    ELSE IF ~results[i].ok THEN results[i]
    ELSE IF i = Len(results) THEN results[i]
    ELSE Lift2(LAMBDA a, b : VecMap2(Plus, a, b), results[i], sum_over_iterations(results, i + 1))

reduce_mean_axis0(results) ==
    Lift1(LAMBDA s : VecMap1(LAMBDA x : RDiv(x, Len(results)), s), sum_over_iterations(results, 1))

----------------------------------------------------------------------------
(* Inputs *)

LabelValues == {0, Scale, MAGIC_NUMBER}

LogitValues == {0 - 2 * Scale, 0, 5 * Scale}

ProbValues == {0, 25}

BinaryProbValues == {0, 25, 50, 99}

BayesLabelValues == {0, Scale}

BayesPredValues == {0, Scale}

Shapes == (1..MaxBatch) \X (1..MaxWidth)

NoBayes ==
    [num_classes |-> 0, std |-> Pending, variance |-> Pending, variance_depressor |-> Pending,
     pred |-> <<>>, undistorted_loss |-> Pending, calls |-> <<>>,
     norm_dist |-> [kind |-> "None", val |-> <<>>, stream |-> <<>>],
     monte_carlo_results |-> <<>>, draws |-> <<>>]

----------------------------------------------------------------------------
(* Masked sigmoid cross-entropy: any labels against any logits, shapes included *)

InitSigmoid ==
    /\ \E s1 \in Shapes, s2 \in Shapes :
          /\ y_true \in Tensors(LabelValues, s1[1], s1[2])
          /\ y_pred \in Tensors(LogitValues, s2[1], s2[2])
    /\ tensor_equality \in BOOLEAN
    /\ from_logits = TRUE
    /\ k = 1
    /\ pc = "sigmoid"
    /\ loss = Pending /\ loss2 = Pending /\ elem = Pending
    /\ bayes = NoBayes

SigmoidCall ==
    /\ pc = "sigmoid"
    /\ loss = Pending
    /\ loss' = astronn_sigmoid_cross_entropy_with_logits(y_true, y_pred, tensor_equality)
    /\ UNCHANGED <<y_true, y_pred, from_logits, k, tensor_equality, pc, loss2, elem, bayes>>

NextSigmoid == SigmoidCall

SpecSigmoid == InitSigmoid /\ [][NextSigmoid]_vars

----------------------------------------------------------------------------
(* Categorical cross-entropy in probability mode: labels against predictions *)
(* of the same shape, non-negative with a positive sum along the last axis  *)

InitCategorical ==
    /\ \E s \in Shapes :
          /\ y_true \in Tensors(LabelValues, s[1], s[2])
          /\ y_pred \in Tensors(ProbValues, s[1], s[2])
    /\ \A r \in 1..Len(y_pred) : SumSeq(y_pred[r]) > 0
    /\ tensor_equality = FALSE
    /\ from_logits = FALSE
    /\ k \in 2..MaxScale
    /\ pc = "categorical"
    /\ loss = Pending /\ loss2 = Pending /\ elem = Pending
    /\ bayes = NoBayes

CategoricalCall ==
    /\ pc = "categorical"
    /\ loss = Pending
    /\ loss' = categorical_cross_entropy(y_true, y_pred, from_logits)
    /\ elem' = IF from_logits THEN elem ELSE weighted_log(y_true, y_pred)
    /\ UNCHANGED <<y_true, y_pred, from_logits, k, tensor_equality, pc, loss2, bayes>>

\* the same call on the predictions multiplied by k
CategoricalRescaledCall ==
    /\ pc = "categorical"
    /\ loss2 = Pending
    /\ loss2' = categorical_cross_entropy(y_true, Map1(LAMBDA x : k * x, y_pred), from_logits)
    /\ UNCHANGED <<y_true, y_pred, from_logits, k, tensor_equality, pc, loss, elem, bayes>>

NextCategorical == CategoricalCall \/ CategoricalRescaledCall

SpecCategorical == InitCategorical /\ [][NextCategorical]_vars

----------------------------------------------------------------------------
(* Binary cross-entropy: labels against probabilities of the same shape *)

InitBinary ==
    /\ \E s \in Shapes :
          /\ y_true \in Tensors(LabelValues, s[1], s[2])
          /\ y_pred \in Tensors(BinaryProbValues, s[1], s[2])
    /\ tensor_equality \in BOOLEAN
    /\ from_logits = FALSE
    /\ k = 1
    /\ pc = "binary"
    /\ loss = Pending /\ loss2 = Pending /\ elem = Pending
    /\ bayes = NoBayes

AwayFromZeroAndOne(p) == \A rc \in Cells(p) : Epsilon <= p[rc[1]][rc[2]] /\ p[rc[1]][rc[2]] <= Scale - Epsilon

BinaryCall ==
    /\ pc = "binary"
    /\ loss = Pending
    /\ loss' = binary_cross_entropy(y_true, y_pred, FALSE, tensor_equality)
    /\ elem' = binary_elements(y_true, y_pred, FALSE, tensor_equality)
    /\ UNCHANGED <<y_true, y_pred, from_logits, k, tensor_equality, pc, loss2, bayes>>

\* the logit-mode call on log(p / (1 - p)), for p away from 0 and 1
BinaryLogitsCall ==
    /\ pc = "binary"
    /\ loss2 = Pending
    /\ AwayFromZeroAndOne(y_pred)
    /\ loss2' = binary_cross_entropy(y_true, Map1(LAMBDA p : Log(Div(p, Scale - p)), y_pred),
                                     TRUE, tensor_equality)
    /\ UNCHANGED <<y_true, y_pred, from_logits, k, tensor_equality, pc, loss, elem, bayes>>

NextBinary == BinaryCall \/ BinaryLogitsCall

SpecBinary == InitBinary /\ [][NextBinary]_vars

----------------------------------------------------------------------------
(* Bayesian cross-entropy: y_true of num_classes >= 2 columns, y_pred one wider *)

InitBayes ==
    /\ \E b \in 1..MaxBatch, n \in 2..MaxWidth :
          /\ y_true \in Tensors(BayesLabelValues, b, n)
          /\ y_pred \in Tensors(BayesPredValues, b, n + 1)
    /\ tensor_equality = FALSE
    /\ from_logits \in BOOLEAN
    /\ k = 1
    /\ pc = "start"
    /\ loss = Pending /\ loss2 = Pending /\ elem = Pending
    /\ bayes = NoBayes

\* lines 127-132
BayesSplit ==
    /\ pc = "start"
    /\ LET num_classes == Shape(y_pred)[2]
           variance    == strided_slice_column(y_pred, num_classes)
       IN  bayes' = [bayes EXCEPT
                       !.num_classes = num_classes,
                       !.std = Ok(Map1(Sqrt, y_pred)),
                       !.variance = variance,
                       !.variance_depressor =
                           Lift1(LAMBDA v : VecMap1(LAMBDA x : Exp(x) - Scale, v), variance),
                       !.pred = strided_slice_columns(y_pred, 0, num_classes)]
    /\ pc' = "split"
    /\ UNCHANGED <<y_true, y_pred, from_logits, k, tensor_equality, loss, loss2, elem>>

\* line 133
BayesUndistorted ==
    /\ pc = "split"
    /\ bayes' = [bayes EXCEPT
                    !.undistorted_loss = categorical_cross_entropy(bayes.pred, y_true, from_logits),
                    !.calls = Append(@, [first |-> "pred", second |-> "y_true",
                                         logit_mode |-> from_logits])]
    /\ pc' = "undistorted"
    /\ UNCHANGED <<y_true, y_pred, from_logits, k, tensor_equality, loss, loss2, elem>>

\* lines 134-142
BayesMonteCarlo ==
    /\ pc = "undistorted"
    /\ \E noise \in random_normal(bayes.std.val) :
          LET norm_dist == [kind |-> "Tensor", val |-> noise, stream |-> <<>>]
              mc == map_fn(y_true, bayes.pred, norm_dist, bayes.undistorted_loss,
                           bayes.num_classes, 1, <<>>)
              variance_loss == Lift2(LAMBDA a, b : VecMap2(Mul, a, b),
                                     reduce_mean_axis0(mc.results), bayes.undistorted_loss)
              returned == Lift2(LAMBDA a, b : VecMap2(Plus, a, b),
                                Lift2(LAMBDA a, b : VecMap2(Plus, a, b),
                                      variance_loss, bayes.undistorted_loss),
                                bayes.variance_depressor)
          IN  /\ bayes' = [bayes EXCEPT
                             !.norm_dist = norm_dist,
                             !.monte_carlo_results = mc.results,
                             !.draws = [i \in 1..Len(mc.results) |-> <<"sample", i>>],
                             !.calls = @ \o [i \in 1..Len(mc.results) |->
                                                [first |-> "pred + std_samples", second |-> "true",
                                                 logit_mode |-> TRUE]]]
              /\ loss' = IF mc.raised THEN Raise(mc.exc, <<>>) ELSE returned
    /\ pc' = "done"
    /\ UNCHANGED <<y_true, y_pred, from_logits, k, tensor_equality, loss2, elem>>

NextBayes == BayesSplit \/ BayesUndistorted \/ BayesMonteCarlo

SpecBayes == InitBayes /\ [][NextBayes]_vars

----------------------------------------------------------------------------
(* Properties *)

\* C1: the masked sigmoid loss of equally shaped logits and labels is exactly 0
\* at every position whose label is the sentinel, whatever the logit, and is
\* max(x,0) - x*y + log(1+exp(-|x|)) at every other position.
C1_SentinelZeroElseStableLoss ==
    (pc = "sigmoid" /\ loss.ok) =>
        \A rc \in Cells(y_true) :
            LET y == y_true[rc[1]][rc[2]]
                x == y_pred[rc[1]][rc[2]]
            IN  loss.val[rc[1]][rc[2]] =
                    IF y = MAGIC_NUMBER THEN 0
                    ELSE Max(x, 0) - Mul(x, y) + Log1p(Exp(0 - Abs(x)))

\* C2: in binary_cross_entropy with from_logits=False every element whose label
\* is the sentinel contributes exactly zero to the per-sample mean, and a row
\* whose labels are all sentinel has loss exactly 0.
C2_BinarySentinelContributesZero ==
    (pc = "binary" /\ loss.ok /\ elem.ok) =>
        /\ \A rc \in Cells(y_true) :
              y_true[rc[1]][rc[2]] = MAGIC_NUMBER => elem.val[rc[1]][rc[2]] = 0
        /\ \A r \in 1..Len(y_true) :
              (\A c \in 1..Len(y_true[r]) : y_true[r][c] = MAGIC_NUMBER) => loss.val[r] = 0

NonSentinelTerms(r) ==
    [c \in 1..Len(y_true[r]) |-> IF y_true[r][c] = MAGIC_NUMBER THEN 0 ELSE elem.val[r][c]]

\* C3: in categorical_cross_entropy with from_logits=False every class entry
\* whose label is the sentinel contributes exactly 0 to the per-sample sum,
\* whatever the prediction there: the loss is the negated sum of the other
\* entries' terms, and a sample whose labels are all sentinel has loss 0.
C3_CategoricalSentinelContributesZero ==
    (pc = "categorical" /\ ~from_logits /\ loss.ok /\ elem.ok) =>
        /\ \A rc \in Cells(y_true) :
              y_true[rc[1]][rc[2]] = MAGIC_NUMBER => elem.val[rc[1]][rc[2]] = 0
        /\ \A r \in 1..Len(y_true) :
              /\ loss.val[r] = 0 - SumSeq(NonSentinelTerms(r))
              /\ (\A c \in 1..Len(y_true[r]) : y_true[r][c] = MAGIC_NUMBER) => loss.val[r] = 0

\* C3 witness: a probability-mode call returned for a sample holding a sentinel
\* label at an entry with a non-zero prediction next to an observed class.
C3_Witness ==
    /\ pc = "categorical" /\ ~from_logits /\ loss.ok /\ elem.ok
    /\ \E r \in 1..Len(y_true) :
          /\ \E c \in 1..Len(y_true[r]) : y_true[r][c] = MAGIC_NUMBER /\ y_pred[r][c] > 0
          /\ \E c \in 1..Len(y_true[r]) : y_true[r][c] = Scale
          /\ loss.val[r] > 0

\* C4: for every y_true, sentinel labels included, and every p in [eps, 1-eps],
\* binary_cross_entropy(y_true, p, from_logits=False) equals
\* binary_cross_entropy(y_true, log(p/(1-p)), from_logits=True).
C4_BinaryModesAgree ==
    (pc = "binary" /\ loss.ok /\ loss2.ok) => loss = loss2

\* C5: a call of the masked sigmoid loss with logits and labels of different
\* shapes fails with a shape-mismatch error that carries both shapes, the shape
\* of logits and the shape of labels.
C5_MismatchErrorCarriesBothShapes ==
    (pc = "sigmoid" /\ loss # Pending /\ Shape(y_true) # Shape(y_pred)) =>
        /\ loss.exc = "ValueError"
        /\ \E i \in 1..Len(loss.msg) : loss.msg[i] = Shape(y_pred)
        /\ \E i \in 1..Len(loss.msg) : loss.msg[i] = Shape(y_true)

\* C6: the Bayesian loss splits y_pred so that pred is exactly the first
\* num_classes columns, as wide as y_true, and variance is the remaining last
\* column; the variance column is never part of pred.
C6_SplitPredAndVariance ==
    (pc \in {"split", "undistorted", "done"}) =>
        /\ Len(bayes.pred[1]) = Len(y_true[1])
        /\ bayes.pred = strided_slice_columns(y_pred, 0, Len(y_true[1]))
        /\ bayes.variance = Ok([r \in 1..Len(y_pred) |-> y_pred[r][Len(y_pred[r])]])

\* C7: categorical_cross_entropy with from_logits=False gives the same result
\* for (y_true, k * y_pred) as for (y_true, y_pred), for every k > 0 and every
\* y_pred with a positive sum along the last axis.
C7_RescalingInvariant ==
    (pc = "categorical" /\ ~from_logits /\ loss.ok /\ loss2.ok) => loss2 = loss

\* C7 witness: both calls returned, for predictions that are not already
\* normalised and a sample with a non-zero loss.
C7_Witness ==
    /\ pc = "categorical" /\ ~from_logits /\ loss.ok /\ loss2.ok
    /\ k >= 2
    /\ \E r \in 1..Len(y_pred) : SumSeq(y_pred[r]) # Scale /\ loss.val[r] # 0

\* C8: the Monte Carlo loop runs exactly T = 25 iterations and the Bayesian loss
\* returns mean(contributions) * undistorted_loss + undistorted_loss +
\* variance_depressor, with variance_depressor = exp(variance) - 1.
C8_BayesianLossReturned ==
    (pc = "done") =>
        /\ loss.ok
        /\ Len(bayes.monte_carlo_results) = T
        /\ bayes.variance_depressor =
              Ok([r \in 1..Len(y_pred) |-> Exp(y_pred[r][Len(y_pred[r])]) - Scale])
        /\ \A r \in 1..Len(y_true) :
              loss.val[r] = Mul(reduce_mean_axis0(bayes.monte_carlo_results).val[r],
                                bayes.undistorted_loss.val[r])
                            + bayes.undistorted_loss.val[r]
                            + bayes.variance_depressor.val[r]

\* C9: whatever the wrapper's from_logits, the undistorted loss and every
\* distorted loss are computed by categorical_cross_entropy in logit mode and
\* with the prediction slice passed first and y_true second.
C9_SameModeAndBinding ==
    \A i \in 1..Len(bayes.calls) :
        /\ bayes.calls[i].logit_mode = TRUE
        /\ bayes.calls[i].first \in {"pred", "pred + std_samples"}
        /\ bayes.calls[i].second \in {"y_true", "true"}

\* C10: each of the T Monte Carlo iterations perturbs pred with a fresh draw of
\* its own: T draws, no two the same, none the tensor drawn before the loop.
C10_FreshDrawPerIteration ==
    (pc = "done") =>
        /\ Len(bayes.draws) = T
        /\ \A i, j \in 1..Len(bayes.draws) : i # j => bayes.draws[i] # bayes.draws[j]
        /\ \A i \in 1..Len(bayes.draws) : bayes.draws[i] # <<"random_normal", 0>>

====
